---- MODULE Spec2Model ----
(***************************************************************************)
(* Model of the SMAC tuning harness of scala-tetris:                       *)
(*   src/src/main/python/smac_optimize.py  (profile "hpo": 5 parameters,   *)
(*                                          20 games per evaluation)       *)
(*   src/src/python/smac_optimize.py       (profile "bo": 12 parameters,   *)
(*                                          100 games per evaluation)      *)
(* Both scripts build a ConfigurationSpace, wrap it in a Scenario, hand    *)
(* the closure fun_to_optimize to a SMAC facade and call optimize().       *)
(* The SMAC library and the JVM evaluator are outside the repository: the  *)
(* model treats them as the environment (which configuration is sampled,   *)
(* what the evaluator answers, whether the optimizer goes on after a       *)
(* crashed trial).  Floats are modelled by integers: the harness only      *)
(* copies and negates them.                                                *)
(***************************************************************************)
EXTENDS Integers, Sequences, FiniteSets, TLC

VARIABLES
    profile,          \* which script runs: "hpo" or "bo" ("unit" in SpecEval)
    budget,           \* the evaluation budget of the run (runcount-limit)
    classpath_ok,     \* whether the jar named by CLASSPATH holds class RunStrategy
    phase,            \* position of smac_opt
    cs,               \* the ConfigurationSpace: sequence of hyperparameters
    scenario,         \* the Scenario object (<<>> before it is built)
    tae_runner,       \* TRUE once the facade holds fun_to_optimize
    runs,             \* number of calls of fun_to_optimize so far
    evaluator_calls,  \* number of calls of runStrategyWithConfiguration so far
    trials,           \* one record per call of fun_to_optimize, in order
    x,                \* the Configuration of the last call
    last,             \* the full outcome of the last call
    unit              \* SpecEval only: the last direct call and its result

vars == <<profile, budget, classpath_ok, phase, cs, scenario, tae_runner,
          runs, evaluator_calls, trials, x, last, unit>>

----------------------------------------------------------------------------
(* Program constants *)

n_params == 5
bo_bridge_dims == 12
bo_space_dims == 12
hpo_trial_count == 20
bo_trial_count == 100
lower_bound == 0
upper_bound == 100
default_value == 1
runcount_limit == 999999

(* Bounds of the model *)

\* the budgets of the model are 1..MaxBudget (the source's 999999 scaled down)
MaxBudget == 3
\* defineSpace and fun_to_optimize are also called directly with n in 1..MaxN
MaxN == 3

Min(a, b) == IF a < b THEN a ELSE b

Budgets == 1 .. Min(runcount_limit, MaxBudget)

\* raw scores the evaluator can answer (higher is better)
Scores == {-3, 0, 10, 75}

----------------------------------------------------------------------------
(* Names, hyperparameters, configurations *)

\* f'x{i}'
Name(i) == "x" \o ToString(i)

\* UniformFloatHyperparameter(name, 0, 100, default_value=1)
UniformFloatHyperparameter(name, lo, hi, dflt) ==
    [name |-> name, lower |-> lo, upper |-> hi, default |-> dflt]

defineSpaceShifted(n) ==
    [i \in 1 .. n |->
        UniformFloatHyperparameter(Name(i), lower_bound, upper_bound, default_value)]

\* [UniformFloatHyperparameter(f"x{i}", 0, 100, default_value=1) for i in range(0, n)]
defineSpace(n) ==
    [i \in 1 .. n |->
        UniformFloatHyperparameter(Name(i - 1), lower_bound, upper_bound, default_value)]

\* A Configuration is a mapping with an iteration order of its own: a
\* sequence of <<key, value>> pairs with distinct keys.
Keys(c) == {c[j][1] : j \in DOMAIN c}

\* c[key] for a key the mapping holds
Lookup(c, key) == c[CHOOSE j \in DOMAIN c : c[j][1] = key][2]

\* a sequence in another iteration order
Permute(s, order) ==
    CASE order = "declared" -> s
      [] order = "reversed" -> [j \in DOMAIN s |-> s[Len(s) + 1 - j]]
      [] order = "rotated"  -> [j \in DOMAIN s |-> s[(j % Len(s)) + 1]]

Orders == {"declared", "reversed", "rotated"}
Seeds == {0, 30}

\* the value the optimizer samples for the i-th hyperparameter: within its bounds,
\* different at different positions
Sample(hp, seed, i) == hp.lower + ((seed + 7 * i) % (hp.upper - hp.lower + 1))

\* The Configurations the optimizer can sample from a ConfigurationSpace: one value
\* within bounds per hyperparameter, iterated in an order of the library's choosing.
Configurations(space) ==
    {Permute([i \in DOMAIN space |-> <<space[i].name, Sample(space[i], seed, i)>>], order) :
        seed \in Seeds, order \in Orders}

----------------------------------------------------------------------------
(* The Evaluation Bridge: fun_to_optimize *)

\* some x[f'x{i}'], i in range(0, n), raises KeyError
MissingKey(c, n) == \E i \in 0 .. n - 1 : Name(i) \notin Keys(c)

ParamsInConfigOrder(c, n) == [i \in 1 .. n |-> c[i][2]]

\* params = [x[f'x{i}'] for i in range(0, n)]
Params(c, n) == [i \in 1 .. n |-> Lookup(c, Name(i - 1))]

RetNotNegated(raw) == raw

\* ret = -RunStrategy.runStrategyWithConfiguration(params, trialCount)
Ret(raw) == -raw

\* what the evaluator does with one call: <<>> when it raises, <<r>> when it
\* answers raw score r
Answers == {<<>>} \cup {<<r>> : r \in Scores}

Outcome(kind, attempts, request, calls, raw, ret) ==
    [kind |-> kind, resolve_attempts |-> attempts, request |-> request,
     evaluator_calls |-> calls, raw |-> raw, ret |-> ret]

\* (variant: the exception of the evaluator is caught and a score of 0 returned)
fun_to_optimize_swallow(c, n, trialCount, resolves, answer) ==
    IF ~resolves
    THEN Outcome("ClassNotFound", 1, <<>>, 0, <<>>, <<>>)
    ELSE IF MissingKey(c, n)
    THEN Outcome("KeyError", 1, <<>>, 0, <<>>, <<>>)
    ELSE LET params == Params(c, n) IN
         IF answer = <<>>
         THEN Outcome("return", 1, <<params, trialCount>>, 1, <<>>, <<0>>)
         ELSE Outcome("return", 1, <<params, trialCount>>, 1, answer, <<Ret(answer[1])>>)

\* (variant: x.get(name, default) instead of x[name])
fun_to_optimize_get_default(c, n, trialCount, resolves, answer) ==
    IF ~resolves
    THEN Outcome("ClassNotFound", 1, <<>>, 0, <<>>, <<>>)
    ELSE LET params == [i \in 1 .. n |->
                           IF Name(i - 1) \in Keys(c) THEN Lookup(c, Name(i - 1))
                                                      ELSE default_value] IN
         IF answer = <<>>
         THEN Outcome("EvaluatorRaised", 1, <<params, trialCount>>, 1, <<>>, <<>>)
         ELSE Outcome("return", 1, <<params, trialCount>>, 1, answer, <<Ret(answer[1])>>)

\* (variant: autoclass is tried a second time when it fails)
fun_to_optimize_retry_resolve(c, n, trialCount, resolves, answer) ==
    IF ~resolves
    THEN Outcome("ClassNotFound", 2, <<>>, 0, <<>>, <<>>)
    ELSE IF MissingKey(c, n)
    THEN Outcome("KeyError", 1, <<>>, 0, <<>>, <<>>)
    ELSE LET params == Params(c, n) IN
         IF answer = <<>>
         THEN Outcome("EvaluatorRaised", 1, <<params, trialCount>>, 1, <<>>, <<>>)
         ELSE Outcome("return", 1, <<params, trialCount>>, 1, answer, <<Ret(answer[1])>>)

\* One call fun_to_optimize(c) of the closure over n and trialCount.
\* resolves: whether autoclass('RunStrategy') finds the class; answer: what the
\* evaluator does if it is called.  No statement of the function catches an
\* exception, so the first one ends the call.
fun_to_optimize(c, n, trialCount, resolves, answer) ==
    IF ~resolves
    THEN Outcome("ClassNotFound", 1, <<>>, 0, <<>>, <<>>)
    ELSE IF MissingKey(c, n)
    THEN Outcome("KeyError", 1, <<>>, 0, <<>>, <<>>)
    ELSE LET params == Params(c, n) IN
         IF answer = <<>>
         THEN Outcome("EvaluatorRaised", 1, <<params, trialCount>>, 1, <<>>, <<>>)
         ELSE Outcome("return", 1, <<params, trialCount>>, 1, answer, <<Ret(answer[1])>>)

----------------------------------------------------------------------------
(* The run profiles: what each script closes fun_to_optimize over *)

Profiles == {"hpo", "bo"}

\* the dimension of the ConfigurationSpace the script builds
SpaceDims(p) == IF p = "hpo" THEN n_params ELSE bo_space_dims

\* the range fun_to_optimize iterates over
BridgeDims(p) == IF p = "hpo" THEN n_params ELSE bo_bridge_dims

TrialCountMixed(p) == bo_trial_count

\* the second argument of runStrategyWithConfiguration
TrialCount(p) == IF p = "hpo" THEN hpo_trial_count ELSE bo_trial_count

ScenarioLimitOffByOne(space, limit) ==
    [run_obj |-> "quality", runcount_limit |-> limit + 1, cs |-> space,
     deterministic |-> FALSE]

\* Scenario({"run_obj": "quality", "runcount-limit": limit, "cs": cs,
\*           "deterministic": "false"})
Scenario(space, limit) ==
    [run_obj |-> "quality", runcount_limit |-> limit, cs |-> space,
     deterministic |-> FALSE]

----------------------------------------------------------------------------
(* smac_opt: the Search Orchestrator *)

Final == {"COMPLETED", "INTERRUPTED", "FATAL"}

NoUnit == [op |-> "none"]

Init ==
    /\ profile \in Profiles
    /\ budget \in Budgets
    /\ classpath_ok \in BOOLEAN
    /\ phase = "INIT"
    /\ cs = <<>>
    /\ scenario = <<>>
    /\ tae_runner = FALSE
    /\ runs = 0
    /\ evaluator_calls = 0
    /\ trials = <<>>
    /\ x = <<>>
    /\ last = <<>>
    /\ unit = NoUnit

\* cs = ConfigurationSpace(); cs.add_hyperparameters(hyper_params)
BuildSpace ==
    /\ phase = "INIT"
    /\ cs' = defineSpace(SpaceDims(profile))
    /\ phase' = "SPACE_BUILT"
    /\ UNCHANGED <<profile, budget, classpath_ok, scenario, tae_runner, runs,
                   evaluator_calls, trials, x, last, unit>>

\* (variant: the callback is tried once on a sampled configuration while the
\* optimizer is being constructed)
ConstructOptimizerWithTrialCall ==
    /\ phase = "SPACE_BUILT"
    /\ scenario' = <<Scenario(cs, budget)>>
    /\ tae_runner' = TRUE
    /\ phase' = "OPTIMIZER_CONSTRUCTED"
    /\ \E c \in Configurations(cs), answer \in Answers :
          LET r == fun_to_optimize(c, BridgeDims(profile), TrialCount(profile),
                                   classpath_ok, answer)
          IN /\ x' = c
             /\ last' = <<r>>
             /\ evaluator_calls' = evaluator_calls + r.evaluator_calls
    /\ UNCHANGED <<profile, budget, classpath_ok, cs, runs, trials, unit>>

\* scenario = Scenario({...}); smac = SMAC4HPO(scenario, rng, tae_runner=fun_to_optimize)
ConstructOptimizer ==
    /\ phase = "SPACE_BUILT"
    /\ scenario' = <<Scenario(cs, budget)>>
    /\ tae_runner' = TRUE
    /\ phase' = "OPTIMIZER_CONSTRUCTED"
    /\ UNCHANGED <<profile, budget, classpath_ok, cs, runs, evaluator_calls,
                   trials, x, last, unit>>

\* smac.optimize() is entered
StartOptimize ==
    /\ phase = "OPTIMIZER_CONSTRUCTED"
    /\ phase' = "SEARCHING"
    /\ UNCHANGED <<profile, budget, classpath_ok, cs, scenario, tae_runner, runs,
                   evaluator_calls, trials, x, last, unit>>

\* what the history keeps of one call of the bridge
\* (answer: what the evaluator did, or would have done, with that call)
TrialRecord(r, at, answer) ==
    [kind |-> r.kind, resolve_attempts |-> r.resolve_attempts,
     shape |-> IF r.request = <<>> THEN <<>> ELSE <<Len(r.request[1]), r.request[2]>>,
     evaluator_calls |-> r.evaluator_calls, answer |-> answer, ret |-> r.ret,
     phase |-> at]

\* Inside optimize(): the optimizer samples a Configuration from the scenario's
\* space and calls tae_runner with it, as long as fewer than runcount-limit
\* runs were made.  When the call raises, the optimizer either records a
\* crashed run and goes on or gives up and the exception leaves optimize().
Trial ==
    /\ phase = "SEARCHING"
    /\ tae_runner
    /\ runs < scenario[1].runcount_limit
    /\ \E c \in Configurations(scenario[1].cs), answer \in Answers, abort \in BOOLEAN :
          LET r == fun_to_optimize(c, BridgeDims(profile), TrialCount(profile),
                                   classpath_ok, answer)
          IN /\ x' = c
             /\ last' = <<r>>
             /\ trials' = Append(trials, TrialRecord(r, phase, answer))
             /\ runs' = runs + 1
             /\ evaluator_calls' = evaluator_calls + r.evaluator_calls
             /\ phase' = IF r.kind # "return" /\ abort THEN "FATAL" ELSE "SEARCHING"
    /\ UNCHANGED <<profile, budget, classpath_ok, cs, scenario, tae_runner, unit>>

\* optimize() returns: the budget is used up
Complete ==
    /\ phase = "SEARCHING"
    /\ runs >= scenario[1].runcount_limit
    /\ phase' = "COMPLETED"
    /\ UNCHANGED <<profile, budget, classpath_ok, cs, scenario, tae_runner, runs,
                   evaluator_calls, trials, x, last, unit>>

\* the process is stopped from outside while optimize() runs
Interrupt ==
    /\ phase = "SEARCHING"
    /\ phase' = "INTERRUPTED"
    /\ UNCHANGED <<profile, budget, classpath_ok, cs, scenario, tae_runner, runs,
                   evaluator_calls, trials, x, last, unit>>

\* an import or a constructor of the libraries raises before optimize() is entered
StartupError ==
    /\ phase \in {"INIT", "SPACE_BUILT", "OPTIMIZER_CONSTRUCTED"}
    /\ phase' = "FATAL"
    /\ UNCHANGED <<profile, budget, classpath_ok, cs, scenario, tae_runner, runs,
                   evaluator_calls, trials, x, last, unit>>

Next ==
    \/ BuildSpace
    \/ ConstructOptimizer
    \/ StartOptimize
    \/ Trial
    \/ Complete
    \/ Interrupt
    \/ StartupError

Spec == Init /\ [][Next]_vars

----------------------------------------------------------------------------
(* defineSpace and fun_to_optimize called directly, once, on any input *)

\* the dimensions tried: the small ones and those of the two scripts
Dims == (1 .. MaxN) \cup {n_params, bo_bridge_dims}

\* the mapping c without its j-th entry
Without(c, j) == [k \in 1 .. Len(c) - 1 |-> IF k < j THEN c[k] ELSE c[k + 1]]

\* the mapping c with one more key
WithExtra(c, key) == <<<<key, upper_bound>>>> \o c

\* keys no space of dimension n declares
ExtraKeys(n) == {Name(n), "y0"}

\* Mappings fun_to_optimize can be called with: the Configurations of the space,
\* and those with a declared key missing, an undeclared key added, or both.
Mappings(n) ==
    LET exact == Configurations(defineSpace(n))
        short == {Without(c, j) : c \in exact, j \in 1 .. n}
    IN exact \cup short
             \cup {WithExtra(c, k) : c \in exact, k \in ExtraKeys(n)}
             \cup {WithExtra(c, k) : c \in short, k \in ExtraKeys(n)}

InitEval ==
    /\ profile = "unit"
    /\ budget = 1
    /\ classpath_ok = TRUE
    /\ phase = "INIT"
    /\ cs = <<>>
    /\ scenario = <<>>
    /\ tae_runner = FALSE
    /\ runs = 0
    /\ evaluator_calls = 0
    /\ trials = <<>>
    /\ x = <<>>
    /\ last = <<>>
    /\ unit = NoUnit

CallDefineSpace ==
    /\ unit = NoUnit
    /\ \E n \in Dims : unit' = [op |-> "defineSpace", n |-> n, space |-> defineSpace(n)]
    /\ UNCHANGED <<profile, budget, classpath_ok, phase, cs, scenario, tae_runner,
                   runs, evaluator_calls, trials, x, last>>

CallEvaluate ==
    /\ unit = NoUnit
    /\ \E n \in Dims, trialCount \in {hpo_trial_count, bo_trial_count},
          resolves \in BOOLEAN, answer \in Answers :
          \E c \in Mappings(n) :
             unit' = [op |-> "evaluate", n |-> n, space |-> defineSpace(n),
                      trialCount |-> trialCount, x |-> c, resolves |-> resolves,
                      answer |-> answer,
                      result |-> fun_to_optimize(c, n, trialCount, resolves, answer)]
    /\ UNCHANGED <<profile, budget, classpath_ok, phase, cs, scenario, tae_runner,
                   runs, evaluator_calls, trials, x, last>>

NextEval ==
    \/ CallDefineSpace
    \/ CallEvaluate

SpecEval == InitEval /\ [][NextEval]_vars

----------------------------------------------------------------------------
(* Properties *)

\* the names x0, x1, ... written out
ExpectedNames ==
    <<"x0", "x1", "x2", "x3", "x4", "x5", "x6", "x7", "x8", "x9", "x10", "x11", "x12">>

\* the names a space declares
Declared(space) == {space[i].name : i \in DOMAIN space}

\* C1: for a space of size N and a Configuration whose keys are exactly the
\* space's names, the vector passed to the evaluator has length N and its
\* i-th element is the Configuration's value for the i-th name of the space,
\* whatever the Configuration's own order.
C1_ParamsInSpaceOrder ==
    (unit.op = "evaluate" /\ unit.resolves /\ Keys(unit.x) = Declared(unit.space)) =>
        /\ unit.result.request # <<>>
        /\ Len(unit.result.request[1]) = Len(unit.space)
        /\ \A i \in DOMAIN unit.space :
              \E j \in DOMAIN unit.x :
                 unit.x[j] = <<unit.space[i].name, unit.result.request[1][i]>>

\* C1 witness: a Configuration of 12 keys iterated in another order than the
\* space's was turned into a request.
C1_Witness ==
    /\ unit.op = "evaluate"
    /\ unit.n = 12
    /\ Keys(unit.x) = Declared(unit.space)
    /\ unit.x[1][1] # "x0"
    /\ unit.result.request # <<>>
    /\ unit.result.request[1][1] = unit.x[12][2]

\* C2: every call the evaluator completes with raw score r returns -r to the
\* optimizer, so a higher raw score gives a lower returned value.
C2_ReturnsNegatedScore ==
    /\ \A k \in DOMAIN trials :
          (trials[k].shape # <<>> /\ trials[k].answer # <<>>) =>
              /\ trials[k].kind = "return"
              /\ trials[k].ret # <<>>
              /\ trials[k].ret[1] + trials[k].answer[1] = 0
    /\ \A k, m \in DOMAIN trials :
          (trials[k].kind = "return" /\ trials[m].kind = "return"
             /\ trials[k].answer[1] > trials[m].answer[1]) =>
              trials[k].ret[1] < trials[m].ret[1]

\* C2 witness: two completed evaluations with raw scores 75 and 10.
C2_Witness ==
    \E k, m \in DOMAIN trials :
        /\ trials[k].kind = "return" /\ trials[k].answer = <<75>> /\ trials[k].ret = <<-75>>
        /\ trials[m].kind = "return" /\ trials[m].answer = <<10>>

\* C3: the number of bridge invocations never exceeds the budget, and a run
\* that completes without a failed evaluation made exactly budget of them
\* (each call with raw score 10 returning -10).
C3_BudgetRespected ==
    /\ runs <= budget
    /\ Len(trials) = runs
    /\ (phase = "COMPLETED" /\ \A k \in DOMAIN trials : trials[k].kind = "return") =>
          /\ runs = budget
          /\ evaluator_calls = budget
          /\ \A k \in DOMAIN trials :
                trials[k].answer = <<10>> => trials[k].ret = <<-10>>

\* C3 witness: budget 3, the evaluator always answers 10, the run completed.
C3_Witness ==
    /\ phase = "COMPLETED"
    /\ budget = 3
    /\ runs = 3
    /\ evaluator_calls = 3
    /\ \A k \in DOMAIN trials : trials[k].answer = <<10>> /\ trials[k].ret = <<-10>>

\* C4: when the evaluator raises in trial k, the bridge ends that call with
\* the error: no score for trial k, one evaluator call only for that trial,
\* and trial k is never recorded as a returned score.
C4_EvaluatorFailureSurfaces ==
    /\ \A k \in DOMAIN trials :
          (trials[k].shape # <<>> /\ trials[k].answer = <<>>) =>
              /\ trials[k].kind = "EvaluatorRaised"
              /\ trials[k].ret = <<>>
              /\ trials[k].evaluator_calls = 1
    /\ evaluator_calls = Cardinality({k \in DOMAIN trials : trials[k].shape # <<>>})
    /\ (last # <<>> /\ last[1].kind = "EvaluatorRaised") => last[1].ret = <<>>

\* C4 witness: the evaluator answered the first call and raised on the second.
C4_Witness ==
    /\ Len(trials) >= 2
    /\ trials[1].kind = "return"
    /\ trials[2].kind = "EvaluatorRaised"
    /\ trials[2].ret = <<>>

C6_DefineSpace ==
    (unit.op = "defineSpace" /\ unit.n >= 1) =>
        /\ Len(unit.space) = unit.n
        /\ \A i \in 1 .. unit.n :
              /\ unit.space[i] =
                    [name |-> ExpectedNames[i], lower |-> 0, upper |-> 100, default |-> 1]
              /\ unit.space[i].lower <= unit.space[i].default
              /\ unit.space[i].default <= unit.space[i].upper
        /\ Cardinality(Declared(unit.space)) = unit.n

\* C6 witness: the space of 12 dimensions was built, its last name x11.
C6_Witness ==
    /\ unit.op = "defineSpace"
    /\ unit.n = 12
    /\ Len(unit.space) = 12
    /\ unit.space[12].name = "x11"

\* the transitions of the run's state machine
Edges ==
    {<<"INIT", "SPACE_BUILT">>, <<"SPACE_BUILT", "OPTIMIZER_CONSTRUCTED">>,
     <<"OPTIMIZER_CONSTRUCTED", "SEARCHING">>, <<"SEARCHING", "COMPLETED">>,
     <<"SEARCHING", "INTERRUPTED">>, <<"SEARCHING", "FATAL">>,
     <<"INIT", "FATAL">>, <<"SPACE_BUILT", "FATAL">>,
     <<"OPTIMIZER_CONSTRUCTED", "FATAL">>}

\* C7: the run follows INIT -> SPACE_BUILT -> OPTIMIZER_CONSTRUCTED ->
\* SEARCHING -> {COMPLETED | INTERRUPTED | FATAL}: no state skipped or
\* revisited, COMPLETED and INTERRUPTED only from SEARCHING, nothing happens
\* after a final state, and the bridge and the evaluator are called only
\* while SEARCHING.
C7_StateMachine ==
    [][ /\ phase' # phase => <<phase, phase'>> \in Edges
        /\ phase \in Final => UNCHANGED vars
        /\ (runs' # runs \/ trials' # trials \/ evaluator_calls' # evaluator_calls
              \/ last' # last \/ x' # x) => phase = "SEARCHING"
      ]_vars

\* C7 witness: a run went through every state to COMPLETED with calls made.
C7_Witness ==
    /\ phase = "COMPLETED"
    /\ cs # <<>>
    /\ scenario # <<>>
    /\ tae_runner
    /\ runs >= 2

C10_RequestShapeFixedByProfile ==
    \A k \in DOMAIN trials :
        trials[k].shape # <<>> =>
            /\ trials[k].shape \in {<<5, 20>>, <<12, 100>>}
            /\ trials[k].shape = IF profile = "hpo" THEN <<5, 20>> ELSE <<12, 100>>
            /\ trials[k].shape[1] = Len(scenario[1].cs)
            /\ trials[k].shape[1] = Len(cs)
            /\ \A m \in DOMAIN trials :
                  trials[m].shape # <<>> => trials[m].shape = trials[k].shape

\* C10 witness: a run of the 5-parameter profile made two evaluator calls.
C10_Witness ==
    /\ profile = "hpo"
    /\ Len(trials) >= 2
    /\ trials[1].shape = <<5, 20>>
    /\ trials[2].shape = <<5, 20>>

====
